---- MODULE Spec2Model ----
(***************************************************************************)
(* Proxy selection and retry loops of the YouTube transcript service       *)
(* (src/main.py).                                                          *)
(*                                                                         *)
(* The three handlers are "async def" coroutines that contain no await and *)
(* sleep with the blocking time.sleep: the event loop runs one handler     *)
(* from its first statement to its response before it starts the next, so  *)
(* the model has one running handler (pc, and the handler's locals) and a  *)
(* count of accepted requests that wait for the event loop.                *)
(*                                                                         *)
(* Time.  time.time() is kept as the origin: last_proxy_use[u] holds the   *)
(* stored timestamp minus the current time, in whole seconds.  A recorded  *)
(* use is 0, a rate-limit mark is +30, and the passing of d seconds        *)
(* subtracts d from every entry (Advance).  The code reads an entry only   *)
(* to order the proxies and to compare its age with MIN_REQUEST_INTERVAL,  *)
(* so the entries that are already MIN_REQUEST_INTERVAL old keep their     *)
(* order and nothing else (Normalize): the state space is finite without a *)
(* bound on the clock.                                                     *)
(***************************************************************************)
EXTENDS Integers, Sequences, FiniteSets, TLC

(* ---------------------------------------------------------------- bounds *)
MaxProxies == 2        \* pools of 0..MaxProxies proxies
MaxFetch == 1          \* one fetch attempt lasts 1..MaxFetch seconds
MaxWaiting == 1        \* accepted requests waiting for the event loop
MaxEntries == 2        \* configured (host, port, username) entries at startup
MaxLargePool == 11     \* pools of 0..MaxLargePool proxies in SpecLarge

(* ------------------------------------------------------ program constants *)
MIN_REQUEST_INTERVAL == 2
RATE_LIMIT_MARK == 30
BACKOFF_START == 1
BACKOFF_MAX == 30
RETRY_CAP == 10

None == "None"              \* no handler, no error
NoProxy == <<>>             \* get_random_proxy's None
NoTranscript == <<>>
proxy_password == "pw"

VARIABLES
    proxy_configs,     \* the pool: a sequence of proxy URLs
    last_proxy_use,    \* URL -> timestamp relative to the current time
    cooldown,          \* URL -> seconds left of the 30 since its last 429
    waiting,           \* requests accepted, not yet started by the event loop
    handler,           \* the running handler, or None
    pc,                \* its position
    used_proxies,      \* its set of proxy ids
    max_retries,
    retry_count,
    backoff_time,
    proxy_config,      \* the URL the selector returned
    slept,             \* the seconds the selector's call in progress sleeps
    last_error,
    transcript,        \* what the successful fetch returned
    attempts,          \* the fetch attempts of the running request, in order
    response,          \* the response of the request, once it has one
    delayed,           \* seconds the request slept since its last failed attempt, up to BACKOFF_START
    config,            \* startup: zip(proxy_hosts, proxy_ports, proxy_usernames)
    next_entry,        \* startup: the entry the for loop is at
    probed,            \* startup: the probes made, in order
    phase              \* "startup", then "serving"

vars == <<proxy_configs, last_proxy_use, cooldown, waiting, handler, pc, used_proxies,
          max_retries, retry_count, backoff_time, proxy_config, slept, last_error,
          transcript, attempts, response, delayed, config, next_entry,
          probed, phase>>

clock == <<last_proxy_use, cooldown>>
locals == <<used_proxies, max_retries, retry_count, backoff_time, proxy_config, slept,
            last_error, transcript, attempts, delayed>>
startup == <<config, next_entry, probed, phase>>

Handlers == {"get_transcript", "list_languages", "translate_transcript"}

\* What one fetch through a proxy ends with: the transcript, or an exception
\* whose message is one of these.
Errors == {"429 Client Error: Too Many Requests", "Connection error", "Video unavailable"}
RateLimited == "429 Client Error: Too Many Requests"
ConnectionError == "Connection error"
Permanent == {"Video unavailable"}
Outcomes == {"ok"} \cup Errors

Min(S) == CHOOSE x \in S : \A y \in S : x <= y
Min2(a, b) == IF a <= b THEN a ELSE b

(* ------------------------------------------------------------ identities *)
\* create_proxy_url: http://{username}:{password}@{host}:{port}
create_proxy_url(host, port, username) == <<"http", username, proxy_password, host, port>>

\* urlparse(url).username @ urlparse(url).netloc.split("@")[1]
ProxyId(url) == <<url[2], url[4], url[5]>>

\* The i-th configured endpoint (host, port, username).
Endpoint(i) == <<i, 8000 + i, "user">>
ConfiguredPool(n) == [i \in 1..n |-> create_proxy_url(Endpoint(i)[1], Endpoint(i)[2], Endpoint(i)[3])]

(* ------------------------------------------------------------------ time *)
Floor == 0 - MIN_REQUEST_INTERVAL

\* Entries at or below Floor keep their order among themselves only.
Normalize(lpu) ==
    [u \in DOMAIN lpu |->
        IF lpu[u] > Floor THEN lpu[u]
        ELSE Floor - Cardinality({lpu[v] : v \in {w \in DOMAIN lpu : lpu[w] <= Floor /\ lpu[w] > lpu[u]}})]

\* d seconds pass.
Advance(lpu, d) == Normalize([u \in DOMAIN lpu |-> lpu[u] - d])

\* What is left of each cooldown after d seconds.
Cool(cd, d) == [u \in DOMAIN cd |-> IF cd[u] > d THEN cd[u] - d ELSE 0]

(* ------------------------------------------------------ get_random_proxy *)
\* Before as it would be if the list were sorted most recently used first.
BeforeDescending(lpu, i, j) ==
    \/ lpu[proxy_configs[i]] > lpu[proxy_configs[j]]
    \/ lpu[proxy_configs[i]] = lpu[proxy_configs[j]] /\ i < j

\* sorted(proxy_configs, key=last_proxy_use.get): a stable sort.
Before(lpu, i, j) ==
    \/ lpu[proxy_configs[i]] < lpu[proxy_configs[j]]
    \/ lpu[proxy_configs[i]] = lpu[proxy_configs[j]] /\ i < j

\* The place of proxy_configs[i] in the sorted list.
Position(lpu, i) == 1 + Cardinality({j \in 1..Len(proxy_configs) : Before(lpu, j, i)})

available_proxies(lpu) ==
    [k \in 1..Len(proxy_configs) |->
        proxy_configs[CHOOSE i \in 1..Len(proxy_configs) : Position(lpu, i) = k]]

\* current_time - last_proxy_use.get(proxy["http"], 0) >= MIN_REQUEST_INTERVAL
NotRateLimited(lpu, u) == 0 - lpu[u] >= MIN_REQUEST_INTERVAL

\* wait_time as it would be if the sleep were MIN_REQUEST_INTERVAL seconds.
wait_time_FixedInterval(lpu) ==
    IF \E i \in 1..Len(proxy_configs) : NotRateLimited(lpu, proxy_configs[i])
    THEN 0
    ELSE MIN_REQUEST_INTERVAL

\* wait_time as it would be if the sleep ended at the last use itself.
wait_time_NoInterval(lpu) ==
    IF \E i \in 1..Len(proxy_configs) : NotRateLimited(lpu, proxy_configs[i])
    THEN 0
    ELSE LET next_available == Min({lpu[u] : u \in DOMAIN lpu})
         IN  IF next_available - 0 > 0 THEN next_available - 0 ELSE 0

\* wait_time as it would be if get_random_proxy never slept.
wait_time_NoSleep(lpu) == 0

\* The seconds get_random_proxy sleeps before it returns.
wait_time(lpu) ==
    IF \E i \in 1..Len(proxy_configs) : NotRateLimited(lpu, proxy_configs[i])
    THEN 0
    ELSE LET next_available == Min({lpu[u] : u \in DOMAIN lpu}) + MIN_REQUEST_INTERVAL
         IN  IF next_available - 0 > 0 THEN next_available - 0 ELSE 0

\* The proxy get_random_proxy returns.
get_random_proxy(lpu) ==
    IF Len(proxy_configs) = 0 THEN NoProxy
    ELSE LET avail == available_proxies(lpu)
             ok == {i \in DOMAIN avail : NotRateLimited(lpu, avail[i])}
         IN  IF ok # {} THEN avail[Min(ok)] ELSE avail[1]

(* ------------------------------------------------------------- responses *)
\* The except clause of each handler: the status it picks from the message.
StatusOf(h, error_message) ==
    IF error_message \in Permanent THEN 404
    ELSE IF error_message = RateLimited THEN 503
    ELSE 500

Failure(h, error_message) == [status |-> StatusOf(h, error_message), body |-> <<error_message>>]
Success(t) == [status |-> 200, body |-> t]
NoResponse == [status |-> 0, body |-> <<>>]

(* --------------------------------------------------------------- startup *)
\* An entry with a blank field: the for loop skips it.
BlankEntry == <<0, 0, "">>
IsBlank(entry) == entry[3] = ""

\* What the two requests of test_proxy end with.
BasicResults == {"200", "forbidden", "status", "raises"}
YoutubeResults == {"200", "429", "status", "raises"}
NotProbed == "none"

\* test_proxy as it would be if a 429 from YouTube disqualified the proxy.
test_proxy_Strict(basic, youtube) ==
    IF basic = "raises" THEN FALSE
    ELSE IF basic # "200" THEN FALSE
    ELSE IF youtube = "raises" THEN FALSE
    ELSE IF youtube = "429" THEN FALSE
    ELSE IF youtube # "200" THEN FALSE
    ELSE TRUE

\* test_proxy: ip-api.com first, then YouTube; any exception is False.
test_proxy(basic, youtube) ==
    IF basic = "raises" THEN FALSE
    ELSE IF basic # "200" THEN FALSE
    ELSE IF youtube = "raises" THEN FALSE
    ELSE IF youtube = "429" THEN TRUE
    ELSE IF youtube # "200" THEN FALSE
    ELSE TRUE

\* The configurations startup can read: 1..MaxEntries entries, each an endpoint
\* or blank; an endpoint may be listed more than once.
Entries == {Endpoint(i) : i \in 1..MaxProxies} \cup {BlankEntry}
Configs == UNION {[1..n -> Entries] : n \in 1..MaxEntries}

\* No handler runs.
Idle ==
    /\ handler = None
    /\ pc = "idle"
    /\ used_proxies = {}
    /\ max_retries = 0
    /\ retry_count = 0
    /\ backoff_time = BACKOFF_START
    /\ proxy_config = NoProxy
    /\ slept = 0
    /\ last_error = None
    /\ transcript = NoTranscript
    /\ attempts = <<>>
    /\ response = NoResponse
    /\ delayed = 0

\* The handlers' state before any request.
NoRequest == waiting = 0 /\ Idle

\* The module is imported: proxy_configs = [], last_proxy_use = {}.
InitStartup ==
    /\ config \in Configs
    /\ next_entry = 1
    /\ probed = <<>>
    /\ phase = "startup"
    /\ proxy_configs = <<>>
    /\ last_proxy_use = <<>>
    /\ cooldown = <<>>
    /\ NoRequest

\* if not host.strip() or not port.strip() or not username.strip(): continue
SkipEntry ==
    /\ phase = "startup"
    /\ next_entry <= Len(config)
    /\ IsBlank(config[next_entry])
    /\ next_entry' = next_entry + 1
    /\ UNCHANGED <<proxy_configs, last_proxy_use, cooldown, waiting, handler, pc, response>>
    /\ UNCHANGED <<config, probed, phase>>
    /\ UNCHANGED locals

\* One turn of the for loop: the proxy is tested and, if it works, appended.
ProbeEntry(basic, youtube) ==
    /\ phase = "startup"
    /\ next_entry <= Len(config)
    /\ ~IsBlank(config[next_entry])
    /\ basic # "200" => youtube = NotProbed
    /\ basic = "200" => youtube # NotProbed
    /\ LET entry == config[next_entry]
           proxy_url == create_proxy_url(entry[1], entry[2], entry[3])
       IN  /\ probed' = Append(probed, [url |-> proxy_url, basic |-> basic, youtube |-> youtube])
           /\ IF test_proxy(basic, youtube)
              THEN /\ proxy_configs' = Append(proxy_configs, proxy_url)
                   /\ last_proxy_use' = [u \in DOMAIN last_proxy_use \cup {proxy_url} |->
                                            IF u = proxy_url THEN Floor ELSE last_proxy_use[u]]
                   /\ cooldown' = [u \in DOMAIN cooldown \cup {proxy_url} |-> 0]
              ELSE UNCHANGED <<proxy_configs, last_proxy_use, cooldown>>
    /\ next_entry' = next_entry + 1
    /\ UNCHANGED <<waiting, handler, pc, response, config, phase>>
    /\ UNCHANGED locals

\* StartServing as it would be if an empty pool were a configuration error.
StartServingStrict ==
    /\ phase = "startup"
    /\ next_entry > Len(config)
    /\ phase' = IF Len(proxy_configs) > 0 THEN "serving" ELSE "failed"
    /\ UNCHANGED <<proxy_configs, last_proxy_use, cooldown, waiting, handler, pc, response>>
    /\ UNCHANGED <<config, next_entry, probed>>
    /\ UNCHANGED locals

\* The for loop is over: "Proxy configuration complete" or "No working proxies
\* found!" is logged, the app is created and serves.
StartServing ==
    /\ phase = "startup"
    /\ next_entry > Len(config)
    /\ phase' = "serving"
    /\ UNCHANGED <<proxy_configs, last_proxy_use, cooldown, waiting, handler, pc, response>>
    /\ UNCHANGED <<config, next_entry, probed>>
    /\ UNCHANGED locals

NextStartup ==
    \/ SkipEntry
    \/ \E basic \in BasicResults, youtube \in YoutubeResults \cup {NotProbed} : ProbeEntry(basic, youtube)
    \/ StartServing

SpecStartup == InitStartup /\ [][NextStartup]_vars

(* ------------------------------------------------------------------ init *)
\* The service serves with a pool of n distinct proxies, every one of them
\* admitted at startup.  Startup sets last_proxy_use[url] = 0 for every proxy of
\* the pool: the epoch, long before the first request.
Serving(n) ==
    /\ proxy_configs = ConfiguredPool(n)
    /\ last_proxy_use = [u \in {proxy_configs[i] : i \in DOMAIN proxy_configs} |-> Floor]
    /\ cooldown = [u \in {proxy_configs[i] : i \in DOMAIN proxy_configs} |-> 0]
    /\ config = [i \in 1..n |-> Endpoint(i)]
    /\ next_entry = n + 1
    /\ probed = [i \in 1..n |-> [url |-> proxy_configs[i], basic |-> "200", youtube |-> "200"]]
    /\ phase = "serving"

Init ==
    /\ \E n \in 0..MaxProxies : Serving(n)
    /\ NoRequest

(* --------------------------------------------------------------- actions *)
\* d seconds pass: time.sleep(d), or a fetch that lasts d seconds.
Elapse(d) ==
    /\ last_proxy_use' = Advance(last_proxy_use, d)
    /\ cooldown' = Cool(cooldown, d)

\* A client's request is accepted; it waits until the event loop is free.
Arrive ==
    /\ phase = "serving"
    /\ waiting < MaxWaiting
    /\ waiting' = waiting + 1
    /\ UNCHANGED <<proxy_configs, last_proxy_use, cooldown, handler, pc, response>>
    /\ UNCHANGED locals
    /\ UNCHANGED startup

\* A second passes while no handler runs.
Tick ==
    /\ pc = "idle"
    /\ Elapse(1)
    /\ clock' # clock
    /\ UNCHANGED <<proxy_configs, waiting, handler, pc, response>>
    /\ UNCHANGED locals
    /\ UNCHANGED startup

\* MaxRetries as it would be without the cap of 10.
MaxRetriesUncapped(h, n) == n * 2

\* min(len(proxy_configs) * 2, 10) in get_transcript and translate_transcript,
\* len(proxy_configs) * 2 in list_languages.
MaxRetries(h, n) == IF h = "list_languages" THEN n * 2 ELSE Min2(n * 2, RETRY_CAP)

\* The event loop is free: no handler is between its first statement and its response.
EventLoopFree == pc = "idle"

\* The event loop starts handler h for a waiting request: its statements up to
\* the while loop.
Begin(h) ==
    /\ EventLoopFree
    /\ waiting > 0
    /\ waiting' = waiting - 1
    /\ handler' = h
    /\ used_proxies' = {}
    /\ retry_count' = 0
    /\ backoff_time' = BACKOFF_START
    /\ proxy_config' = NoProxy
    /\ slept' = 0
    /\ last_error' = None
    /\ transcript' = NoTranscript
    /\ attempts' = <<>>
    /\ delayed' = 0
    /\ IF h # "list_languages" /\ Len(proxy_configs) = 0
       THEN \* raise HTTPException(503), caught by the handler's own except clause
            /\ max_retries' = 0
            /\ response' = Failure(h, "HTTPException 503")
            /\ pc' = "done"
       ELSE /\ max_retries' = MaxRetries(h, Len(proxy_configs))
            /\ response' = NoResponse
            /\ pc' = "loop"
    /\ UNCHANGED <<proxy_configs, last_proxy_use, cooldown>>
    /\ UNCHANGED startup

\* while retry_count < max_retries and len(used_proxies) < len(proxy_configs)
LoopCondition == retry_count < max_retries /\ Cardinality(used_proxies) < Len(proxy_configs)

\* The while condition; when it fails, the else clause raises last_error.
LoopTest ==
    /\ pc = "loop"
    /\ IF LoopCondition
       THEN /\ pc' = "select"
            /\ UNCHANGED response
       ELSE /\ pc' = "done"
            /\ response' = Failure(handler, IF last_error # None THEN last_error ELSE "All proxy attempts failed")
    /\ UNCHANGED <<proxy_configs, last_proxy_use, cooldown, waiting, handler>>
    /\ UNCHANGED locals
    /\ UNCHANGED startup

\* proxy_config = get_random_proxy(): it returns at once, or goes to sleep.
Select ==
    /\ pc = "select"
    /\ proxy_config' = get_random_proxy(last_proxy_use)
    /\ slept' = wait_time(last_proxy_use)
    /\ pc' = IF slept' > 0 THEN "waiting" ELSE "selected"
    /\ UNCHANGED <<proxy_configs, last_proxy_use, cooldown, waiting, handler, response>>
    /\ UNCHANGED <<used_proxies, max_retries, retry_count, backoff_time, last_error, transcript, attempts, delayed>>
    /\ UNCHANGED startup

\* time.sleep(wait_time) in get_random_proxy ends; it returns.
WakeUp ==
    /\ pc = "waiting"
    /\ Elapse(slept)
    /\ delayed' = Min2(delayed + slept, BACKOFF_START)
    /\ pc' = "selected"
    /\ UNCHANGED <<proxy_configs, waiting, handler, response>>
    /\ UNCHANGED <<used_proxies, max_retries, retry_count, backoff_time, proxy_config, slept, last_error, transcript, attempts>>
    /\ UNCHANGED startup

\* if proxy_id in used_proxies (list_languages: and retry_count < len(proxy_configs))
Skips ==
    /\ ProxyId(proxy_config) \in used_proxies
    /\ handler = "list_languages" => retry_count < Len(proxy_configs)

\* The selected proxy was already tried: continue, after time.sleep(backoff_time)
\* in get_transcript and translate_transcript.
Skip ==
    /\ pc = "selected"
    /\ Skips
    /\ pc' = IF handler = "list_languages" THEN "loop" ELSE "backoff"
    /\ slept' = 0
    /\ UNCHANGED <<proxy_configs, last_proxy_use, cooldown, waiting, handler, response>>
    /\ UNCHANGED <<used_proxies, max_retries, retry_count, backoff_time, proxy_config, last_error, transcript, attempts, delayed>>
    /\ UNCHANGED startup

\* NextBackoff without the cap.
NextBackoffUncapped(b) == b * 2

\* backoff_time = min(backoff_time * 2, 30)
NextBackoff(b) == Min2(b * 2, BACKOFF_MAX)

\* time.sleep(backoff_time) ends; the backoff doubles and the loop continues.
BackoffDone ==
    /\ pc = "backoff"
    /\ Elapse(backoff_time)
    /\ delayed' = Min2(delayed + backoff_time, BACKOFF_START)
    /\ backoff_time' = NextBackoff(backoff_time)
    /\ pc' = "loop"
    /\ UNCHANGED <<proxy_configs, waiting, handler, response>>
    /\ UNCHANGED <<used_proxies, max_retries, retry_count, proxy_config, slept, last_error, transcript, attempts>>
    /\ UNCHANGED startup

\* used_proxies.add, retry_count += 1, update_proxy_last_use: the attempt starts.
Attempt ==
    /\ pc = "selected"
    /\ ~Skips
    /\ used_proxies' = used_proxies \cup {ProxyId(proxy_config)}
    /\ retry_count' = retry_count + 1
    /\ last_proxy_use' = [last_proxy_use EXCEPT ![proxy_config] = 0]
    /\ pc' = "fetch"
    /\ delayed' = 0
    /\ slept' = 0
    /\ UNCHANGED <<proxy_configs, cooldown, waiting, handler, response>>
    /\ UNCHANGED <<max_retries, backoff_time, proxy_config, last_error, transcript, attempts>>
    /\ UNCHANGED startup

\* FetchOk as it would be if the loop continued after a successful fetch.
FetchOkContinues(d) ==
    /\ pc = "fetch"
    /\ Elapse(d)
    /\ transcript' = <<ProxyId(proxy_config), retry_count>>
    /\ attempts' = Append(attempts, [proxy |-> ProxyId(proxy_config), outcome |-> "ok"])
    /\ pc' = "loop"
    /\ slept' = 0
    /\ UNCHANGED <<proxy_configs, waiting, handler, response>>
    /\ UNCHANGED <<used_proxies, max_retries, retry_count, backoff_time, proxy_config, last_error, delayed>>
    /\ UNCHANGED startup

\* The fetch returns the transcript after d seconds: break (translate_transcript:
\* return), and the response carries it.
FetchOk(d) ==
    /\ pc = "fetch"
    /\ Elapse(d)
    /\ transcript' = <<ProxyId(proxy_config), retry_count>>
    /\ attempts' = Append(attempts, [proxy |-> ProxyId(proxy_config), outcome |-> "ok"])
    /\ pc' = "done"
    /\ response' = Success(transcript')
    /\ slept' = 0
    /\ UNCHANGED <<proxy_configs, waiting, handler>>
    /\ UNCHANGED <<used_proxies, max_retries, retry_count, backoff_time, proxy_config, last_error, delayed>>
    /\ UNCHANGED startup

\* FetchFails as it would be if a 429 marked every proxy of the pool.
FetchFailsMarkAll(e, d) ==
    /\ pc = "fetch"
    /\ last_error' = e
    /\ attempts' = Append(attempts, [proxy |-> ProxyId(proxy_config), outcome |-> e])
    /\ IF e = RateLimited
       THEN /\ last_proxy_use' = [u \in DOMAIN last_proxy_use |-> RATE_LIMIT_MARK]
            /\ cooldown' = [Cool(cooldown, d) EXCEPT ![proxy_config] = RATE_LIMIT_MARK]
       ELSE Elapse(d)
    /\ pc' = "loop"
    /\ slept' = 0
    /\ UNCHANGED <<proxy_configs, waiting, handler, response>>
    /\ UNCHANGED <<used_proxies, max_retries, retry_count, backoff_time, proxy_config, transcript, delayed>>
    /\ UNCHANGED startup

\* FetchFails as it would be if the rate-limit mark were time.time() - 30.
FetchFailsMarkPast(e, d) ==
    /\ pc = "fetch"
    /\ last_error' = e
    /\ attempts' = Append(attempts, [proxy |-> ProxyId(proxy_config), outcome |-> e])
    /\ IF e = RateLimited
       THEN /\ last_proxy_use' = Normalize([Advance(last_proxy_use, d) EXCEPT ![proxy_config] = 0 - RATE_LIMIT_MARK])
            /\ cooldown' = [Cool(cooldown, d) EXCEPT ![proxy_config] = RATE_LIMIT_MARK]
       ELSE Elapse(d)
    /\ pc' = "loop"
    /\ slept' = 0
    /\ UNCHANGED <<proxy_configs, waiting, handler, response>>
    /\ UNCHANGED <<used_proxies, max_retries, retry_count, backoff_time, proxy_config, transcript, delayed>>
    /\ UNCHANGED startup

\* The fetch raises e after d seconds: the except clause of the loop, then continue.
FetchFails(e, d) ==
    /\ pc = "fetch"
    /\ last_error' = e
    /\ attempts' = Append(attempts, [proxy |-> ProxyId(proxy_config), outcome |-> e])
    /\ IF e = RateLimited
       THEN /\ last_proxy_use' = [Advance(last_proxy_use, d) EXCEPT ![proxy_config] = RATE_LIMIT_MARK]
            /\ cooldown' = [Cool(cooldown, d) EXCEPT ![proxy_config] = RATE_LIMIT_MARK]
       ELSE Elapse(d)
    /\ pc' = "loop"
    /\ slept' = 0
    /\ UNCHANGED <<proxy_configs, waiting, handler, response>>
    /\ UNCHANGED <<used_proxies, max_retries, retry_count, backoff_time, proxy_config, transcript, delayed>>
    /\ UNCHANGED startup

\* The response is sent; the event loop is free again.
Return ==
    /\ pc = "done"
    /\ pc' = "idle"
    /\ handler' = None
    /\ response' = NoResponse
    /\ used_proxies' = {}
    /\ max_retries' = 0
    /\ retry_count' = 0
    /\ backoff_time' = BACKOFF_START
    /\ proxy_config' = NoProxy
    /\ slept' = 0
    /\ last_error' = None
    /\ transcript' = NoTranscript
    /\ attempts' = <<>>
    /\ delayed' = 0
    /\ UNCHANGED <<proxy_configs, last_proxy_use, cooldown, waiting>>
    /\ UNCHANGED startup

\* The steps of the running handler.
Run ==
    \/ LoopTest
    \/ Select
    \/ WakeUp
    \/ Skip
    \/ BackoffDone
    \/ Attempt
    \/ \E d \in 1..MaxFetch : FetchOk(d)
    \/ \E e \in Errors, d \in 1..MaxFetch : FetchFails(e, d)
    \/ Return

Next ==
    \/ Arrive
    \/ Tick
    \/ \E h \in Handlers : Begin(h)
    \/ Run

Spec == Init /\ [][Next]_vars

\* The interpreter keeps running the handler it started; requests arrive and
\* idle time passes as the environment pleases.
SpecFair == Spec /\ WF_vars(Run)

(* ------------------------------------------------------------ large pools *)
\* The handlers whose max_retries is capped.
CappedHandlers == {"get_transcript", "translate_transcript"}

\* One request is waiting on a service that has served none, with a pool of up
\* to MaxLargePool proxies.
InitLarge ==
    /\ \E n \in 0..MaxLargePool : Serving(n)
    /\ waiting = 1
    /\ Idle

\* The steps of that request; each fetch takes a second and ends with the
\* transcript, a connection error or a 429.
NextLarge ==
    \/ \E h \in CappedHandlers : Begin(h)
    \/ LoopTest
    \/ Select
    \/ Attempt
    \/ FetchOk(1)
    \/ \E e \in {ConnectionError, RateLimited} : FetchFails(e, 1)
    \/ Return

SpecLarge == InitLarge /\ [][NextLarge]_vars

(* ---------------------------------------------------------------- claims *)
PoolIds == {ProxyId(proxy_configs[i]) : i \in DOMAIN proxy_configs}

\* No proxy is attempted twice in the running request.
DistinctAttempts ==
    \A i, j \in DOMAIN attempts : i # j => attempts[i].proxy # attempts[j].proxy

\* Every attempt of the running request so far failed with a connection error.
OnlyConnectionErrors ==
    \A i \in DOMAIN attempts : attempts[i].outcome = ConnectionError

\* So far in the running request, proxy b succeeded and every other proxy
\* answered 429.
Scenario(b) ==
    \A i \in DOMAIN attempts :
        attempts[i].outcome = (IF attempts[i].proxy = b THEN "ok" ELSE RateLimited)

\* C1: every request that a handler starts eventually has its response,
\* whatever the pool, the outcomes of the attempts and the usage state left by
\* earlier requests.
C1_EveryRequestReturns == (handler # None) ~> (pc = "done")

\* C2: once a fetch attempt of a request succeeded, it is the request's last
\* attempt, the handler is at its response, and the response carries exactly
\* that attempt's transcript.
C2_SuccessIsReturned ==
    \A i \in DOMAIN attempts :
        attempts[i].outcome = "ok" =>
            /\ i = Len(attempts)
            /\ pc = "done"
            /\ response = Success(<<attempts[i].proxy, i>>)

\* C2 witness: a request that succeeded on a later attempt, after a failure.
C2_Witness ==
    /\ pc = "done"
    /\ Len(attempts) > 1
    /\ attempts[Len(attempts)].outcome = "ok"

\* C3: once an attempt failed with a permanent error, it is the request's last
\* attempt and the handler selects no further proxy.
C3_PermanentErrorStops ==
    \A i \in DOMAIN attempts :
        attempts[i].outcome \in Permanent =>
            /\ i = Len(attempts)
            /\ pc \in {"loop", "done"}

\* C4: a request on a pool of N >= 1 proxies whose attempts all fail with a
\* connection error ends with a failure after exactly N attempts, one per proxy.
C4_ExhaustsPool ==
    (handler # None /\ Len(proxy_configs) > 0) ~>
        \/ ~OnlyConnectionErrors
        \/ /\ pc = "done"
           /\ Len(attempts) = Len(proxy_configs)
           /\ DistinctAttempts
           /\ response.status # 200

\* C5: the proxy get_random_proxy returns to a retry loop is not in the
\* request's used_proxies.
C5_SelectorAvoidsUsed ==
    pc = "selected" => ProxyId(proxy_config) \notin used_proxies

\* C6: in a get_transcript request where one proxy succeeds and every other
\* proxy answers 429, no proxy is attempted twice, the selector never comes
\* back to a proxy already attempted, and the response is the transcript
\* fetched through the proxy that succeeds.
C6_OneGoodProxy ==
    handler = "get_transcript" =>
        \A b \in PoolIds :
            Scenario(b) =>
                /\ DistinctAttempts
                /\ pc \in {"waiting", "selected"} => ProxyId(proxy_config) \notin used_proxies
                /\ pc = "done" => response = Success(<<b, Len(attempts)>>)

\* C6 witness: get_transcript answered with the transcript after a 429 from
\* another proxy.
C6_Witness ==
    /\ handler = "get_transcript"
    /\ pc = "done"
    /\ Len(attempts) > 1
    /\ \E b \in PoolIds : Scenario(b)
    /\ response.status = 200

\* C7: when get_random_proxy returns a proxy, that proxy's last_proxy_use
\* entry is at least MIN_REQUEST_INTERVAL seconds old.
C7_MinimumInterval ==
    pc = "selected" => 0 - last_proxy_use[proxy_config] >= MIN_REQUEST_INTERVAL

\* C7 witness: get_random_proxy returned after it slept.
C7_Witness == pc = "selected" /\ slept > 0

\* C8: during the 30 seconds after a proxy's 429 its last_proxy_use entry
\* covers what is left of them, and no fetch attempt starts through it.
C8_CooldownRespected ==
    /\ \A u \in DOMAIN cooldown : cooldown[u] > 0 => last_proxy_use[u] >= cooldown[u]
    /\ (pc = "selected" /\ ~Skips) => cooldown[proxy_config] = 0

\* C8 witness: every proxy is cooling down and get_random_proxy sleeps.
C8_Witness ==
    /\ pc = "waiting"
    /\ Len(proxy_configs) > 1
    /\ \A u \in DOMAIN cooldown : cooldown[u] > 0

\* C9: while the running request sleeps, in get_random_proxy or in its backoff,
\* a waiting request can be started.
C9_SuspensionDoesNotBlock ==
    (pc \in {"waiting", "backoff"} /\ waiting > 0) => ENABLED (\E h \in Handlers : Begin(h))

\* C10: within one request backoff_time starts at 1, never decreases and never
\* exceeds 30.
C10_BackoffMonotoneCapped ==
    [][/\ (handler = None /\ handler' # None) => backoff_time' = BACKOFF_START
       /\ (handler # None /\ handler' = handler) =>
              (backoff_time <= backoff_time' /\ backoff_time' <= BACKOFF_MAX)]_vars

\* C10 witness: a request sleeps the capped backoff.
C10_Witness == pc = "backoff" /\ backoff_time = BACKOFF_MAX

\* The failures after which a request is to try another proxy.
Transient == {RateLimited, ConnectionError}

\* C11: when a request is about to start an attempt after an attempt that
\* failed with a transient error, it has been delayed by at least the base
\* backoff (1 second) since that failure.
C11_DelayBeforeRetry ==
    (/\ pc = "selected"
     /\ ~Skips
     /\ attempts # <<>>
     /\ attempts[Len(attempts)].outcome \in Transient)
        => delayed >= BACKOFF_START

\* C12: get_transcript and translate_transcript answer a request on an empty
\* pool with HTTP 503, without a fetch attempt.
C12_EmptyPoolIs503 ==
    (/\ pc = "done"
     /\ Len(proxy_configs) = 0
     /\ handler \in {"get_transcript", "translate_transcript"})
        => /\ attempts = <<>>
           /\ response.status = 503

\* C13: a request whose attempts all failed with transient errors is answered
\* with 503, and one whose last attempt failed with a permanent error with 404.
C13_TransientIs503 ==
    (pc = "done" /\ response.status # 200 /\ attempts # <<>>) =>
        /\ (\A i \in DOMAIN attempts : attempts[i].outcome \in Transient) => response.status = 503
        /\ attempts[Len(attempts)].outcome \in Permanent => response.status = 404

C18_ListLanguagesTriesTwice ==
    (/\ handler = "list_languages"
     /\ pc = "done"
     /\ response.status # 200
     /\ Len(proxy_configs) > 0)
        => Len(attempts) = 2 * Len(proxy_configs)

\* C19: a get_transcript or translate_transcript request makes at most
\* min(2 * N, 10) attempts on a pool of N proxies; on a pool of more than 10
\* proxies it fails after 10 failed attempts while untried proxies remain.
C19_AttemptsCapped ==
    handler \in CappedHandlers =>
        /\ Len(attempts) <= Min2(2 * Len(proxy_configs), RETRY_CAP)
        /\ (pc = "done" /\ response.status # 200 /\ Len(proxy_configs) > RETRY_CAP) =>
              /\ Len(attempts) = RETRY_CAP
              /\ Cardinality(used_proxies) < Len(proxy_configs)

\* C19 witness: a request on a pool of more than 10 proxies failed after 10
\* attempts.
C19_Witness ==
    /\ pc = "done"
    /\ response.status # 200
    /\ Len(proxy_configs) > RETRY_CAP
    /\ Len(attempts) = RETRY_CAP

\* The longest a step from the current state can take, in seconds.
LongestStep ==
    IF pc = "waiting" THEN slept
    ELSE IF pc = "backoff" THEN backoff_time
    ELSE IF pc = "fetch" THEN MaxFetch
    ELSE IF pc = "idle" THEN 1
    ELSE 0

\* C20: no step lowers the time recorded in an entry of last_proxy_use: the
\* step leaves the entries as they are, or after it every entry is no earlier
\* than the time it held before, be it a past use or a rate-limit mark.
C20_EntriesNeverDecrease ==
    [][\/ last_proxy_use' = last_proxy_use
       \/ LET after == Normalize(last_proxy_use')
              before == Advance(last_proxy_use, LongestStep)
          IN  \A u \in DOMAIN last_proxy_use : after[u] >= before[u]]_vars

\* C20 witness: get_random_proxy slept until a rate-limit mark was
\* MIN_REQUEST_INTERVAL old and returned the marked proxy, whose use the
\* request records next.
C20_Witness ==
    /\ pc = "selected"
    /\ ~Skips
    /\ slept > MIN_REQUEST_INTERVAL
    /\ last_proxy_use[proxy_config] = Floor

\* C14: no two proxies of the pool built at startup have the same host, port
\* and username, whatever the configuration lists.
C14_NoDuplicateIdentity ==
    \A i, j \in DOMAIN proxy_configs :
        i # j => ProxyId(proxy_configs[i]) # ProxyId(proxy_configs[j])

\* A probe passes when ip-api.com answered 200 and YouTube answered 200 or 429.
Passes(probe) == probe.basic = "200" /\ probe.youtube \in {"200", "429"}

\* The entries of the configuration the for loop has gone through, blanks left out.
Configured == SelectSeq(SubSeq(config, 1, next_entry - 1), LAMBDA entry : entry[3] # "")

\* C15: the pool is exactly the configured endpoints whose probe passed, in the
\* order of the configuration: every non-blank entry gone through was probed
\* once, one whose probe passed (a 429 from YouTube included) is in the pool,
\* and one whose probe failed or raised is not.
C15_AdmitsExactlyThePassing ==
    /\ Len(probed) = Len(Configured)
    /\ \A i \in DOMAIN probed :
          probed[i].url = create_proxy_url(Configured[i][1], Configured[i][2], Configured[i][3])
    /\ LET admitted == SelectSeq(probed, Passes)
       IN  proxy_configs = [i \in DOMAIN admitted |-> admitted[i].url]

\* C15 witness: startup is over; one endpoint was admitted on a 429 from
\* YouTube and one whose probe raised was left out.
C15_Witness ==
    /\ phase = "serving"
    /\ Len(proxy_configs) = 1
    /\ \E i, j \in DOMAIN probed :
          /\ probed[i].youtube = "429"
          /\ probed[j].basic = "raises" \/ probed[j].youtube = "raises"

StepSeconds ==
    IF pc = "waiting" THEN {0, slept}
    ELSE IF pc = "backoff" THEN {0, backoff_time}
    ELSE IF pc = "fetch" THEN 0..MaxFetch
    ELSE IF pc = "idle" THEN {0, 1}
    ELSE {0}

\* The entries of lpu, d seconds later, of the proxies the running request has
\* not attempted.
Unattempted(lpu, used, d) ==
    Normalize([u \in {v \in DOMAIN lpu : ProxyId(v) \notin used} |-> lpu[u] - d])

\* C21: no step changes the pool, the keys of last_proxy_use are the URLs of
\* the pool, and a step leaves the entries of the proxies the running request
\* has not attempted as the passing of time alone leaves them.
C21_OnlyAttemptedEntriesChange ==
    [][/\ proxy_configs' = proxy_configs
       /\ DOMAIN last_proxy_use' = {proxy_configs[i] : i \in DOMAIN proxy_configs}
       /\ \/ last_proxy_use' = last_proxy_use
          \/ \E d \in StepSeconds :
                Unattempted(last_proxy_use', used_proxies', 0)
                    = Unattempted(last_proxy_use, used_proxies', d)]_vars

\* C21 witness: a request got a 429 through one proxy, whose entry now holds
\* the mark, while another proxy that it did not attempt has an entry of its
\* own left by an earlier request.
C21_Witness ==
    /\ pc = "loop"
    /\ last_error = RateLimited
    /\ last_proxy_use[proxy_config] = RATE_LIMIT_MARK
    /\ \E u \in DOMAIN last_proxy_use :
          /\ ProxyId(u) \notin used_proxies
          /\ last_proxy_use[u] > Floor

====
